---------------------------- MODULE Spec2Model ----------------------------
(***************************************************************************)
(* A model of minfs' fs/config.go: the functional options that build a     *)
(* Config, Config.validate, and InitMinFSConfig (the credential file).     *)
(*                                                                         *)
(* A Go string is a sequence of one-character strings; "" is << >>.        *)
(* MountTime, which InitMinFSConfig sets and nothing here reads, is left   *)
(* out.                                                                    *)
(***************************************************************************)
EXTENDS Naturals, Sequences, FiniteSets

VARIABLES
    cfg,      \* the Config under construction (fs/config.go:31-48)
    verr,     \* what the last call of cfg.validate() returned
    last,     \* the last operation applied to cfg, and its argument
    applied,  \* outcomes of url.Parse in the Target options applied so far
    dir,      \* whether globalDBDir exists on disk
    file,     \* globalConfigFile on disk
    env,      \* the environment the current / last InitMinFSConfig runs in
    pre,      \* globalConfigFile as the last InitMinFSConfig found it
    ret,      \* what the last InitMinFSConfig returned
    procs     \* the concurrent processes running InitMinFSConfig

vars == <<cfg, verr, last, applied, dir, file, env, pre, ret, procs>>

-----------------------------------------------------------------------------
(* Strings                                                                 *)

\* strings.Index(s, c) for a one-character c, 1-based; 0 when c is not in s
Index(s, c) ==
    IF \E i \in 1..Len(s) : s[i] = c
    THEN CHOOSE i \in 1..Len(s) : s[i] = c /\ \A j \in 1..(i - 1) : s[j] # c
    ELSE 0

\* strings.LastIndex(s, c), 1-based; 0 when c is not in s
LastIndex(s, c) ==
    IF \E i \in 1..Len(s) : s[i] = c
    THEN CHOOSE i \in 1..Len(s) : s[i] = c /\ \A j \in (i + 1)..Len(s) : s[j] # c
    ELSE 0

\* strings.HasPrefix
HasPrefix(s, p) == Len(s) >= Len(p) /\ SubSeq(s, 1, Len(p)) = p

\* s[i:] of Go, with i counted from 0
From(s, i) == SubSeq(s, i + 1, Len(s))

\* strings.Split(s, sep) for a one-character sep: Split("", "/") is [""]
RECURSIVE Split(_, _)
Split(s, sep) ==
    LET i == Index(s, sep)
    IN  IF i = 0 THEN <<s>>
        ELSE <<SubSeq(s, 1, i - 1)>> \o Split(From(s, i), sep)

\* strings.Join(elems, "/")
RECURSIVE JoinSlash(_)
JoinSlash(elems) ==
    IF elems = << >> THEN << >>
    ELSE IF Len(elems) = 1 THEN elems[1]
    ELSE elems[1] \o <<"/">> \o JoinSlash(Tail(elems))

\* strings.ToLower on the letters of the alphabet used here
RECURSIVE ToLower(_)
ToLower(s) ==
    IF s = << >> THEN << >>
    ELSE <<IF s[1] = "S" THEN "s" ELSE s[1]>> \o ToLower(Tail(s))

DotDot == <<".", ".">>
Dot == <<".">>

\* path.Clean's walk over the elements of a path: "" and "." are skipped, ".."
\* removes the element before it, stays when the path is relative and there is
\* none to remove, and is dropped at the root
RECURSIVE CleanElems(_, _, _)
CleanElems(elems, out, rooted) ==
    IF elems = << >> THEN out
    ELSE LET e == elems[1]
             rest == Tail(elems)
         IN  IF e = << >> \/ e = Dot THEN CleanElems(rest, out, rooted)
             ELSE IF e = DotDot
             THEN IF out # << >> /\ out[Len(out)] # DotDot
                  THEN CleanElems(rest, SubSeq(out, 1, Len(out) - 1), rooted)
                  ELSE IF rooted THEN CleanElems(rest, out, rooted)
                  ELSE CleanElems(rest, out \o <<e>>, rooted)
             ELSE CleanElems(rest, out \o <<e>>, rooted)

\* path.Clean
Clean(p) ==
    IF p = << >> THEN Dot
    ELSE LET rooted == p[1] = "/"
             out == JoinSlash(CleanElems(Split(p, "/"), << >>, rooted))
         IN  IF rooted THEN <<"/">> \o out
             ELSE IF out = << >> THEN Dot ELSE out

\* path.Join(elem...): the non-empty elements joined with "/" and cleaned; ""
\* when every element is empty
PathJoin(elems) ==
    LET nonEmpty == SelectSeq(elems, LAMBDA e : e # << >>)
    IN  IF nonEmpty = << >> THEN << >> ELSE Clean(JoinSlash(nonEmpty))

-----------------------------------------------------------------------------
(* net/url.Parse, as Target calls it, on strings over the alphabet           *)
(* Letters, Digits, ".", ":" and "/".  These strings hold no "#", "?", "%",   *)
(* "@", "[", "*" and no control byte, so a parsed URL has no fragment, query, *)
(* user or RawPath, and unescape returns its argument.                        *)

Letters == {"b", "p", "h", "s", "S"}
Digits == {"8"}

\* the *url.URL that url.Parse returns; the zero URL stands for no URL
ZeroURL == [Scheme |-> << >>, Opaque |-> << >>, Host |-> << >>, Path |-> << >>]

ParseError == [err |-> TRUE, url |-> ZeroURL]

\* url.getScheme from position i (1-based): (scheme, rest, err)
RECURSIVE GetSchemeAt(_, _)
GetSchemeAt(rawURL, i) ==
    LET none == [err |-> FALSE, scheme |-> << >>, rest |-> rawURL]
    IN  IF i > Len(rawURL) THEN none
        ELSE LET c == rawURL[i]
             IN  IF c \in Letters THEN GetSchemeAt(rawURL, i + 1)
                 ELSE IF c \in Digits \/ c = "."
                 THEN IF i = 1 THEN none ELSE GetSchemeAt(rawURL, i + 1)
                 ELSE IF c = ":"
                 THEN IF i = 1
                      THEN [err |-> TRUE, scheme |-> << >>, rest |-> << >>]
                      ELSE [err |-> FALSE, scheme |-> SubSeq(rawURL, 1, i - 1),
                            rest |-> From(rawURL, i)]
                 ELSE none

\* url.validOptionalPort: "" or ":" followed by digits only
ValidOptionalPort(port) ==
    \/ port = << >>
    \/ /\ port[1] = ":"
       /\ \A i \in 2..Len(port) : port[i] \in Digits

\* url.parseHost (no "[" in these strings): whether the host is accepted
ParseHostOK(host) ==
    LET i == LastIndex(host, ":")
    IN  i = 0 \/ ValidOptionalPort(SubSeq(host, i, Len(host)))

\* url.Parse: (url, err)
Parse(rawURL) ==
    LET s == GetSchemeAt(rawURL, 1)
        scheme == ToLower(s.scheme)
        rest == s.rest
        slash == Index(rest, "/")
        segment == IF slash = 0 THEN rest ELSE SubSeq(rest, 1, slash - 1)
        hasAuthority ==
            /\ scheme # << >> \/ ~HasPrefix(rest, <<"/", "/", "/">>)
            /\ HasPrefix(rest, <<"/", "/">>)
        afterSlashes == From(rest, 2)
        cut == Index(afterSlashes, "/")
        authority == IF cut = 0 THEN afterSlashes
                     ELSE SubSeq(afterSlashes, 1, cut - 1)
        path == IF cut = 0 THEN << >> ELSE From(afterSlashes, cut - 1)
    IN  IF s.err THEN ParseError
        ELSE IF ~HasPrefix(rest, <<"/">>) /\ scheme # << >>
        THEN [err |-> FALSE,
              url |-> [ZeroURL EXCEPT !.Scheme = scheme, !.Opaque = rest]]
        ELSE IF ~HasPrefix(rest, <<"/">>) /\ Index(segment, ":") # 0
        THEN ParseError
        ELSE IF hasAuthority
        THEN IF ParseHostOK(authority)
             THEN [err |-> FALSE,
                   url |-> [ZeroURL EXCEPT !.Scheme = scheme,
                                           !.Host = authority, !.Path = path]]
             ELSE ParseError
        ELSE [err |-> FALSE,
              url |-> [ZeroURL EXCEPT !.Scheme = scheme, !.Path = rest]]

-----------------------------------------------------------------------------
(* Config and its options                                                  *)

\* a nil *url.URL
NilTarget == [nil |-> TRUE, url |-> ZeroURL]

\* a pointer to the URL u
PtrTo(u) == [nil |-> FALSE, url |-> u]

\* the zero-valued Config the options are applied to
ZeroConfig ==
    [bucket |-> << >>, basePath |-> << >>, cache |-> << >>,
     accountID |-> << >>, accessKey |-> << >>, secretKey |-> << >>,
     secretToken |-> << >>, target |-> NilTarget, mountpoint |-> << >>,
     insecure |-> FALSE, debug |-> FALSE, uid |-> 0, gid |-> 0, mode |-> 0]

\* the closure Mountpoint(mountpoint) returns, applied to c
ApplyMountpoint(c, mountpoint) == [c EXCEPT !.mountpoint = mountpoint]

\* Target with strings.Join in the place of path.Join
ApplyTargetPlainJoin(c, target) ==
    LET r == Parse(target)
        u == r.url
        parts == Split(From(u.Path, 1), "/")
    IN  IF r.err THEN c
        ELSE IF Len(u.Path) > 1
        THEN [c EXCEPT !.target = PtrTo(u),
                       !.bucket = parts[1],
                       !.basePath = JoinSlash(Tail(parts))]
        ELSE [c EXCEPT !.target = PtrTo(u)]

\* Target that stores what url.Parse returned without looking at err: the nil
\* URL of a failed parse
ApplyTargetIgnoresErr(c, target) ==
    LET r == Parse(target)
        u == r.url
        parts == Split(From(u.Path, 1), "/")
    IN  IF r.err THEN [c EXCEPT !.target = NilTarget]
        ELSE IF Len(u.Path) > 1
        THEN [c EXCEPT !.target = PtrTo(u),
                       !.bucket = parts[1],
                       !.basePath = PathJoin(Tail(parts))]
        ELSE [c EXCEPT !.target = PtrTo(u)]

\* the closure Target(target) returns, applied to c
ApplyTarget(c, target) ==
    LET r == Parse(target)
        u == r.url
        parts == Split(From(u.Path, 1), "/")
    IN  IF r.err THEN c
        ELSE IF Len(u.Path) > 1
        THEN [c EXCEPT !.target = PtrTo(u),
                       !.bucket = parts[1],
                       !.basePath = PathJoin(Tail(parts))]
        ELSE [c EXCEPT !.target = PtrTo(u)]

\* the closure CacheDir(path) returns, applied to c
ApplyCacheDir(c, path) == [c EXCEPT !.cache = path]

\* the closure SetGID(gid) returns, applied to c
ApplySetGID(c, gid) == [c EXCEPT !.gid = gid]

\* the closure SetUID(uid) returns, applied to c
ApplySetUID(c, uid) == [c EXCEPT !.uid = uid]

\* the closure Insecure() returns, applied to c
ApplyInsecure(c) == [c EXCEPT !.insecure = TRUE]

\* the closure Debug() returns, applied to c
ApplyDebug(c) == [c EXCEPT !.debug = TRUE]

\* the errors of Config.validate; NoError is nil
NoError == "nil"
ErrMountpoint == "Mountpoint not set"
ErrTarget == "Target not set"
ErrBucket == "Bucket not set"

\* validate without its bucket check
ValidateSkipsBucket(c) ==
    IF c.mountpoint = << >> THEN ErrMountpoint
    ELSE IF c.target.nil THEN ErrTarget
    ELSE NoError

\* validate with the target check before the mountpoint check
ValidateTargetFirst(c) ==
    IF c.target.nil THEN ErrTarget
    ELSE IF c.mountpoint = << >> THEN ErrMountpoint
    ELSE IF c.bucket = << >> THEN ErrBucket
    ELSE NoError

\* validate with the bucket check before the target check
ValidateBucketFirst(c) ==
    IF c.mountpoint = << >> THEN ErrMountpoint
    ELSE IF c.bucket = << >> THEN ErrBucket
    ELSE IF c.target.nil THEN ErrTarget
    ELSE NoError

\* validate that runs all three checks and returns the last error
ValidateLastError(c) ==
    IF c.bucket = << >> THEN ErrBucket
    ELSE IF c.target.nil THEN ErrTarget
    ELSE IF c.mountpoint = << >> THEN ErrMountpoint
    ELSE NoError

\* Config.validate: the error it returns
Validate(c) ==
    IF c.mountpoint = << >> THEN ErrMountpoint
    ELSE IF c.target.nil THEN ErrTarget
    ELSE IF c.bucket = << >> THEN ErrBucket
    ELSE NoError

-----------------------------------------------------------------------------
(* encoding/json on AccessConfig                                           *)
(*                                                                         *)
(* A credential is a sequence over "A", "B", the double quote, "xFF" (one  *)
(* byte that is not valid UTF-8) and "uFFFD" (the three bytes of U+FFFD).  *)
(* The bytes of a file are a JSON object, given by its members in order    *)
(* with each value as the characters between its quotes, followed by tail  *)
(* further bytes; json is FALSE when the bytes before the tail are no JSON *)
(* object: an empty or a cut-off file.                                     *)

\* the AccessConfig a failed InitMinFSConfig returns (nil), and &AccessConfig{}
ZeroAccessConfig ==
    [Version |-> << >>, AccessKey |-> << >>, SecretKey |-> << >>,
     SecretToken |-> << >>]

\* the bytes of {"version":"","accessKey":"","secretKey":"","secretToken":""},
\* which json.Marshal writes around the four values
JSONOverhead == 61

\* how json.Marshal writes a string: a quote and a backslash are escaped, a
\* byte that is not valid UTF-8 becomes the six characters \ufffd
RECURSIVE Quote(_)
Quote(s) ==
    IF s = << >> THEN << >>
    ELSE LET c == s[1]
             q == IF c = "\"" \/ c = "\\" THEN <<"\\", c>>
                  ELSE IF c = "xFF" THEN <<"\\", "u", "f", "f", "f", "d">>
                  ELSE <<c>>
         IN  q \o Quote(Tail(s))

\* how json.Unmarshal reads a string: escapes are resolved, a byte that is not
\* valid UTF-8 becomes U+FFFD, a bare quote or a broken escape is an error
RECURSIVE Unquote(_)
Unquote(q) ==
    LET then(c, n) ==
            LET r == Unquote(From(q, n))
            IN  [ok |-> r.ok, val |-> IF r.ok THEN <<c>> \o r.val ELSE << >>]
        bad == [ok |-> FALSE, val |-> << >>]
    IN  IF q = << >> THEN [ok |-> TRUE, val |-> << >>]
        ELSE IF q[1] = "\\"
        THEN IF Len(q) >= 2 /\ q[2] \in {"\"", "\\"} THEN then(q[2], 2)
             ELSE IF HasPrefix(q, <<"\\", "u", "f", "f", "f", "d">>)
             THEN then("uFFFD", 6)
             ELSE bad
        ELSE IF q[1] = "\"" THEN bad
        ELSE IF q[1] = "xFF" THEN then("uFFFD", 1)
        ELSE then(q[1], 1)

\* json.Marshal(ac): the bytes written for ac (it returns no error for a
\* struct of strings)
Marshal(ac) ==
    [json |-> TRUE,
     members |-> <<[key |-> "version", val |-> Quote(ac.Version)],
                   [key |-> "accessKey", val |-> Quote(ac.AccessKey)],
                   [key |-> "secretKey", val |-> Quote(ac.SecretKey)],
                   [key |-> "secretToken", val |-> Quote(ac.SecretToken)]>>,
     tail |-> 0]

\* json.Unmarshal's walk over the members of an object: a member with a tag of
\* AccessConfig sets that field, any other member is skipped
RECURSIVE Fill(_, _)
Fill(members, ac) ==
    IF members = << >> THEN [ok |-> TRUE, ac |-> ac]
    ELSE LET m == members[1]
             v == Unquote(m.val)
             set == IF m.key = "version" THEN [ac EXCEPT !.Version = v.val]
                    ELSE IF m.key = "accessKey" THEN [ac EXCEPT !.AccessKey = v.val]
                    ELSE IF m.key = "secretKey" THEN [ac EXCEPT !.SecretKey = v.val]
                    ELSE IF m.key = "secretToken"
                    THEN [ac EXCEPT !.SecretToken = v.val]
                    ELSE ac
         IN  IF ~v.ok THEN [ok |-> FALSE, ac |-> ZeroAccessConfig]
             ELSE Fill(Tail(members), set)

\* json.Unmarshal(acBytes, ac) into a zero AccessConfig: (ac, ok)
Unmarshal(bytes) ==
    IF ~bytes.json \/ bytes.tail # 0
    THEN [ok |-> FALSE, ac |-> ZeroAccessConfig]
    ELSE Fill(bytes.members, ZeroAccessConfig)

\* the bytes a string takes
RECURSIVE ByteCount(_)
ByteCount(s) ==
    IF s = << >> THEN 0
    ELSE (IF s[1] = "uFFFD" THEN 3 ELSE 1) + ByteCount(Tail(s))

\* the length of a file in bytes (of files that json.Marshal wrote, or empty)
RECURSIVE ValueBytes(_)
ValueBytes(members) ==
    IF members = << >> THEN 0
    ELSE ByteCount(members[1].val) + ValueBytes(Tail(members))

FileLen(bytes) ==
    (IF bytes.json THEN JSONOverhead + ValueBytes(bytes.members) ELSE 0)
    + bytes.tail

-----------------------------------------------------------------------------
(* The file system and the environment                                     *)

NoFile == [exists |-> FALSE, json |-> FALSE, members |-> << >>, tail |-> 0]

\* a file holding the given bytes
FileOf(bytes) ==
    [exists |-> TRUE, json |-> bytes.json, members |-> bytes.members,
     tail |-> bytes.tail]

\* the bytes of a file
BytesOf(f) == [json |-> f.json, members |-> f.members, tail |-> f.tail]

\* a file of no bytes, as O_CREATE|O_TRUNC leaves it
EmptyFile == FileOf([json |-> FALSE, members |-> << >>, tail |-> 0])

\* a file cut off after its first byte
CutOffFile == FileOf([json |-> FALSE, members |-> << >>, tail |-> 1])

ZeroEnv ==
    [MINFS_ACCESS_KEY |-> << >>, MINFS_SECRET_KEY |-> << >>,
     MINFS_SECRET_TOKEN |-> << >>]

\* the values the three variables of the environment take; "" when unset
AccessKeyValues == {<< >>, <<"A">>, <<"xFF">>}
SecretKeyValues == {<< >>, <<"C">>, <<"\"", "B">>}
SecretTokenValues == {<< >>, <<"A", "xFF">>}

Envs ==
    [MINFS_ACCESS_KEY : AccessKeyValues, MINFS_SECRET_KEY : SecretKeyValues,
     MINFS_SECRET_TOKEN : SecretTokenValues]

\* credential files found on disk at the first run: none; an empty one; a
\* cut-off one; {"accessKey":"A","secretKey":"B"}; a full record with an
\* escaped quote, a byte that is not UTF-8, an unknown member and a repeated one
InitialFiles ==
    {NoFile, EmptyFile, CutOffFile,
     FileOf([json |-> TRUE,
             members |-> <<[key |-> "accessKey", val |-> <<"A">>],
                           [key |-> "secretKey", val |-> <<"B">>]>>,
             tail |-> 0]),
     FileOf([json |-> TRUE,
             members |-> <<[key |-> "version", val |-> <<"1">>],
                           [key |-> "accessKey", val |-> <<"\\", "\"", "A">>],
                           [key |-> "secretKey", val |-> <<"xFF">>],
                           [key |-> "comment", val |-> <<"B">>],
                           [key |-> "secretToken", val |-> <<"A">>],
                           [key |-> "secretToken", val |-> <<"B">>]>>,
             tail |-> 0]),
     FileOf([json |-> TRUE,
             members |-> <<[key |-> "accessKey", val |-> <<"A", "\"">>]>>,
             tail |-> 0])}

\* the I/O call that fails in a run of InitMinFSConfig, if any
Faults == {"none", "MkdirAll", "Stat", "WriteFile", "ReadFile"}

\* what InitMinFSConfig returned: (ac, err), and whether it wrote the file
Returned(ac, err, wrote) ==
    [called |-> TRUE, err |-> err, wrote |-> wrote, ac |-> ac]

\* no InitMinFSConfig has returned yet
NotCalled ==
    [called |-> FALSE, err |-> "nil", wrote |-> FALSE, ac |-> ZeroAccessConfig]

-----------------------------------------------------------------------------
(* Inputs of the options                                                   *)

\* the longest path, in elements, of the URL strings built from PathElems
MaxElems == 3
\* the largest uid / gid passed to SetUID / SetGID
MaxID == 1

PathElems == {<< >>, <<"b">>, <<"p">>, DotDot}

\* every "/e1/e2/.../en" with n elements of PathElems; "" for n = 0
RECURSIVE PathsOf(_)
PathsOf(n) ==
    IF n = 0 THEN {<< >>}
    ELSE {p \o <<"/">> \o e : p \in PathsOf(n - 1), e \in PathElems}

AbsPaths == UNION {PathsOf(n) : n \in 0..MaxElems}

\* URL strings with a scheme, a host, a port, an opaque part, a relative path,
\* a "." element; and a string url.Parse rejects
OtherURLs ==
    {<<"S", ":", "/", "/", "h", "/", "b", "/", "p">>,
     <<"/", "/", "h", "/", "b", "/", "p", "/", "p">>,
     <<"/", "/", "h", ":", "8", "/", "b">>,
     <<"/", "/", "h">>,
     <<"/", "/", "h", "/">>,
     <<"s", ":">>,
     <<"s", ":", "b", "/", "p">>,
     <<"s", ":", "/", "b", "/", ".", "/", "p">>,
     <<"b", "/", "p", "/", "p">>,
     <<"p", "b", "/", "p">>,
     <<"/", "/", "/", "b", "/", "p">>,
     <<":">>}

\* the URL strings given to Target when only Target is applied
URLStrings == AbsPaths \cup OtherURLs

\* the URL strings given to Target among the other options: with a bucket and
\* a basePath, with a bucket, with the path "/", the empty string, and four
\* strings url.Parse rejects
ConfigURLs ==
    {<<"/", "/", "h", "/", "b", "/", "p">>,
     <<"/", "/", "h", "/", "b">>,
     <<"/", "/", "h", "/">>,
     << >>,
     <<":">>,
     <<":", "/", "/", "h", "/", "b">>,
     <<"/", "/", "h", ":", "p", "/", "b">>,
     <<".", ":", "/", "b">>}

Mountpoints == {<< >>, <<"/", "m">>}
CacheDirs == {<< >>, <<"/", "c">>}
IDs == 0..MaxID

-----------------------------------------------------------------------------
(* Building and validating a Config                                        *)

Op(name, str, num) == [op |-> name, str |-> str, num |-> num]

\* no InitMinFSConfig has run, and none is running
FsIdle ==
    /\ dir = FALSE
    /\ file = NoFile
    /\ env = ZeroEnv
    /\ pre = NoFile
    /\ ret = NotCalled
    /\ procs = << >>

\* the zero-valued Config, before any option
CfgInit ==
    /\ cfg = ZeroConfig
    /\ verr = NoError
    /\ last = Op("new", << >>, 0)
    /\ applied = {}

Init == CfgInit /\ FsIdle

\* an option is applied: options return nothing, so no error is signalled
Option(c, op) ==
    /\ cfg' = c
    /\ verr' = NoError
    /\ last' = op
    /\ UNCHANGED <<dir, file, env, pre, ret, procs>>

DoMountpoint(m) ==
    /\ Option(ApplyMountpoint(cfg, m), Op("Mountpoint", m, 0))
    /\ UNCHANGED applied

DoTarget(s) ==
    /\ Option(ApplyTarget(cfg, s), Op("Target", s, 0))
    /\ applied' = applied \cup {IF Parse(s).err THEN "err" ELSE "ok"}

DoCacheDir(p) ==
    /\ Option(ApplyCacheDir(cfg, p), Op("CacheDir", p, 0))
    /\ UNCHANGED applied

DoSetUID(n) ==
    /\ Option(ApplySetUID(cfg, n), Op("SetUID", << >>, n))
    /\ UNCHANGED applied

DoSetGID(n) ==
    /\ Option(ApplySetGID(cfg, n), Op("SetGID", << >>, n))
    /\ UNCHANGED applied

DoInsecure ==
    /\ Option(ApplyInsecure(cfg), Op("Insecure", << >>, 0))
    /\ UNCHANGED applied

DoDebug ==
    /\ Option(ApplyDebug(cfg), Op("Debug", << >>, 0))
    /\ UNCHANGED applied

\* cfg.validate() is called: it returns an error or nil and assigns nothing
DoValidate ==
    /\ verr' = Validate(cfg)
    /\ last' = Op("validate", << >>, 0)
    /\ UNCHANGED <<cfg, applied, dir, file, env, pre, ret, procs>>

Next ==
    \/ \E m \in Mountpoints : DoMountpoint(m)
    \/ \E s \in ConfigURLs : DoTarget(s)
    \/ \E p \in CacheDirs : DoCacheDir(p)
    \/ \E n \in IDs : DoSetUID(n)
    \/ \E n \in IDs : DoSetGID(n)
    \/ DoInsecure
    \/ DoDebug
    \/ DoValidate

Spec == Init /\ [][Next]_vars

\* only Target options are applied, with every URL string of URLStrings
NextTarget == \E s \in URLStrings : DoTarget(s)

SpecTarget == Init /\ [][NextTarget]_vars

-----------------------------------------------------------------------------
(* Claims about validate                                                   *)

\* validate has just returned
Validated == last.op = "validate"

\* C1: validate returns no error if and only if mountpoint is non-empty, target
\* is non-nil and bucket is non-empty, in every Config the options can build,
\* whatever its other fields hold.
C1_ValidateOkIff ==
    Validated =>
        (verr = NoError <=>
            (cfg.mountpoint # << >> /\ ~cfg.target.nil /\ cfg.bucket # << >>))

\* C1's case: validate accepts a Config whose other fields are set, with an
\* empty basePath
C1_Witness ==
    /\ Validated /\ verr = NoError
    /\ cfg.basePath = << >> /\ cfg.cache # << >>
    /\ cfg.uid # 0 /\ cfg.gid = 0 /\ cfg.insecure /\ ~cfg.debug

\* C7 as stated: validate fails with the target-not-set error if and only if
\* target is nil, whatever mountpoint and bucket hold.
C7_AsStated == Validated => (verr = ErrTarget <=> cfg.target.nil)

\* C7, amended: validate fails with the target-not-set error if and only if
\* target is nil and mountpoint is non-empty (an empty mountpoint is reported
\* first), whatever bucket holds.
C7_TargetErrorIff ==
    Validated => (verr = ErrTarget <=> (cfg.target.nil /\ cfg.mountpoint # << >>))

\* C7's case: validate fails with the target-not-set error
C7_Witness ==
    Validated /\ verr = ErrTarget /\ cfg.target.nil /\ cfg.mountpoint # << >>

\* C9: validate checks mountpoint, target, bucket in this order and stops at
\* the first that fails: mountpoint-not-set whenever mountpoint is empty,
\* target-not-set exactly when mountpoint is non-empty and target is nil,
\* bucket-not-set exactly when mountpoint is non-empty, target is non-nil and
\* bucket is empty; and validate changes no field of the Config.
C9_ValidateOrder ==
    [][last'.op = "validate" =>
        /\ cfg' = cfg
        /\ cfg.mountpoint = << >> => verr' = ErrMountpoint
        /\ verr' = ErrTarget <=> (cfg.mountpoint # << >> /\ cfg.target.nil)
        /\ verr' = ErrBucket <=>
              (cfg.mountpoint # << >> /\ ~cfg.target.nil /\ cfg.bucket = << >>)
      ]_vars

\* C9's case: validate reaches its third check and it fails
C9_Witness ==
    /\ Validated /\ verr = ErrBucket
    /\ cfg.mountpoint # << >> /\ ~cfg.target.nil /\ cfg.bucket = << >>

\* the Config was built with a Target whose URL failed to parse and no other
\* Target, its mountpoint is non-empty, and validate has just run on it
OnlyFailedTarget ==
    Validated /\ applied = {"err"} /\ cfg.mountpoint # << >>

\* C6 as stated: a Config built from the zero value with a non-empty Mountpoint
\* and a Target whose URL fails to parse (and no other Target) fails validation
\* with the bucket-not-set error.
C6_AsStated == OnlyFailedTarget => verr = ErrBucket

\* C6, amended: such a Config fails validation with the target-not-set error:
\* the failed parse leaves target nil, which validate checks before bucket.
C6_ParseFailureIsTargetError == OnlyFailedTarget => verr = ErrTarget

\* C6's case: only unparsable Targets and a non-empty Mountpoint were applied,
\* and validate has run
C6_Witness == OnlyFailedTarget /\ cfg.target.nil /\ cfg.bucket = << >>

-----------------------------------------------------------------------------
(* Claims about Target                                                     *)

\* Target(last.str) has just been applied and its URL string parsed
TargetParsed == last.op = "Target" /\ ~Parse(last.str).err

\* Target(last.str) has just been applied and its URL string did not parse
TargetFailed == last.op = "Target" /\ Parse(last.str).err

\* C8: applying Target with a URL string that fails to parse leaves every field
\* of the Config unchanged, also the target, bucket and basePath of an earlier
\* Target, and signals no error.
C8_FailedTargetChangesNothing ==
    [][(last'.op = "Target" /\ Parse(last'.str).err) =>
        (cfg' = cfg /\ verr' = NoError)]_vars

\* C8's case: an unparsable Target was applied to a Config that held a target,
\* a bucket and a basePath
C8_Witness ==
    /\ TargetFailed
    /\ ~cfg.target.nil /\ cfg.bucket # << >> /\ cfg.basePath # << >>
    /\ applied = {"ok", "err"}

\* the path of a URL without its leading slash
TrimLeadingSlash(path) ==
    IF path # << >> /\ path[1] = "/" THEN Tail(path) ELSE path

\* C2 as stated: for a URL string that parses, with a path longer than one
\* character, Target sets target to the parsed URL, bucket to the first
\* "/"-separated segment of the path without its leading slash, and basePath
\* to the remaining segments joined with "/".
C2_AsStated ==
    LET u == Parse(last.str).url
        segments == Split(TrimLeadingSlash(u.Path), "/")
    IN  (TargetParsed /\ Len(u.Path) > 1) =>
            /\ cfg.target = PtrTo(u)
            /\ cfg.bucket = Head(segments)
            /\ cfg.basePath = JoinSlash(Tail(segments))

\* a segment path.Join keeps as it is
PlainSegment(e) == e # << >> /\ e # Dot /\ e # DotDot

\* what path.Join returns: "", ".", or elements joined with "/" of which none
\* is empty or ".", and ".." stands only in front
Joined(p) ==
    \/ p = << >>
    \/ p = Dot
    \/ LET es == Split(p, "/")
       IN  \A i \in 1..Len(es) :
               /\ es[i] # << >> /\ es[i] # Dot
               /\ es[i] = DotDot => \A j \in 1..i : es[j] = DotDot

\* C2, amended: for a URL string that parses, with a path longer than one
\* character, Target sets target to the parsed URL and splits the path without
\* its first character on "/": bucket is the first segment, which for a path
\* that begins with "/" is the first segment after the leading slash, and
\* basePath is path.Join of the remaining segments: these joined with "/" when
\* none of them is empty, "." or "..", and otherwise a cleaned path with no
\* empty or "." element and ".." only in front.
C2_TargetDerives ==
    LET u == Parse(last.str).url
        segments == Split(Tail(u.Path), "/")
        remaining == Tail(segments)
    IN  (TargetParsed /\ Len(u.Path) > 1) =>
            /\ cfg.target = PtrTo(u)
            /\ cfg.bucket = Head(segments)
            /\ u.Path[1] = "/" =>
                  cfg.bucket = Head(Split(TrimLeadingSlash(u.Path), "/"))
            /\ (\A i \in 1..Len(remaining) : PlainSegment(remaining[i])) =>
                  cfg.basePath = JoinSlash(remaining)
            /\ Joined(cfg.basePath)

\* C2's case: the path /b/p/p gives bucket b and basePath p/p
C2_Witness ==
    /\ TargetParsed
    /\ Parse(last.str).url.Path = <<"/", "b", "/", "p", "/", "p">>
    /\ cfg.bucket = <<"b">>
    /\ cfg.basePath = <<"p", "/", "p">>

\* C5: Target is last-write-wins with its derived fields: after Target(u1) on
\* a zero-valued Config, Target(u2) gives the target, bucket and basePath that
\* Target(u2) alone gives on a zero-valued Config, for u1 and u2 that parse.
C5_TargetLastWriteWins ==
    [][(/\ TargetParsed
        /\ cfg = ApplyTarget(ZeroConfig, last.str)
        /\ last'.op = "Target" /\ ~Parse(last'.str).err)
       => LET alone == ApplyTarget(ZeroConfig, last'.str)
          IN  /\ cfg'.target = alone.target
              /\ cfg'.bucket = alone.bucket
              /\ cfg'.basePath = alone.basePath]_vars

-----------------------------------------------------------------------------
(* InitMinFSConfig, one run after the other                                *)

\* the first run's record with SecretToken read from MINFS_SECRET_KEY
FirstRunRecordWrongVariable(e) ==
    [Version |-> <<"1">>,
     AccessKey |-> e.MINFS_ACCESS_KEY,
     SecretKey |-> e.MINFS_SECRET_KEY,
     SecretToken |-> e.MINFS_SECRET_KEY]

\* the AccessConfig of the first run, taken from the environment e
FirstRunRecord(e) ==
    [Version |-> <<"1">>,
     AccessKey |-> e.MINFS_ACCESS_KEY,
     SecretKey |-> e.MINFS_SECRET_KEY,
     SecretToken |-> e.MINFS_SECRET_TOKEN]

\* the override without its test for an empty variable
OverrideAlways(fromFile, fromEnv) == fromEnv

\* a key read from the file, overridden by its environment variable if set
Override(fromFile, fromEnv) == IF fromEnv # << >> THEN fromEnv ELSE fromFile

\* the AccessConfig read from the file, with the overrides of the environment e
Merge(ac, e) ==
    [ac EXCEPT !.AccessKey = Override(ac.AccessKey, e.MINFS_ACCESS_KEY),
               !.SecretKey = Override(ac.SecretKey, e.MINFS_SECRET_KEY),
               !.SecretToken = Override(ac.SecretToken, e.MINFS_SECRET_TOKEN)]

\* InitMinFSConfig(), run from start to return in the environment e, with the
\* I/O call named by fault failing if the run comes to it. A WriteFile that
\* fails leaves no file, an empty file or a cut-off one.
InitMinFSConfig(e, fault) ==
    /\ env' = e
    /\ pre' = file
    /\ IF fault = "MkdirAll"
       THEN /\ ret' = Returned(ZeroAccessConfig, "MkdirAll failed", FALSE)
            /\ UNCHANGED <<dir, file>>
       ELSE /\ dir' = TRUE
            /\ IF fault = "Stat"
               THEN /\ ret' = Returned(ZeroAccessConfig, "Stat failed", FALSE)
                    /\ UNCHANGED file
               ELSE IF ~file.exists
               THEN IF fault = "WriteFile"
                    THEN /\ ret' = Returned(ZeroAccessConfig, "WriteFile failed",
                                            FALSE)
                         /\ file' \in {file, EmptyFile, CutOffFile}
                    ELSE /\ ret' = Returned(FirstRunRecord(e), NoError, TRUE)
                         /\ file' = FileOf(Marshal(FirstRunRecord(e)))
               ELSE /\ UNCHANGED file
                    /\ IF fault = "ReadFile"
                       THEN ret' = Returned(ZeroAccessConfig, "ReadFile failed",
                                            FALSE)
                       ELSE LET r == Unmarshal(BytesOf(file))
                            IN  IF ~r.ok
                                THEN ret' = Returned(ZeroAccessConfig,
                                                     "Unmarshal failed", FALSE)
                                ELSE ret' = Returned(Merge(r.ac, e), NoError, FALSE)
    /\ UNCHANGED <<cfg, verr, last, applied, procs>>

\* any credential file of InitialFiles is on disk; the directory exists if the
\* file does
InitFS ==
    /\ CfgInit
    /\ file \in InitialFiles
    /\ dir \in (IF file.exists THEN {TRUE} ELSE BOOLEAN)
    /\ env = ZeroEnv
    /\ pre = file
    /\ ret = NotCalled
    /\ procs = << >>

NextInit == \E e \in Envs, fault \in Faults : InitMinFSConfig(e, fault)

SpecInit == InitFS /\ [][NextInit]_vars

-----------------------------------------------------------------------------
(* InitMinFSConfig in several processes at once, one system call a step.   *)
(* A failing call ends its process early and is left to InitMinFSConfig    *)
(* above.                                                                  *)

\* the processes that run InitMinFSConfig against the same credential file
NumProcs == 2

Procs == 1..NumProcs

\* the environments of the racing processes: they differ in MINFS_ACCESS_KEY
RaceEnvs ==
    {e \in Envs : e.MINFS_SECRET_KEY = << >> /\ e.MINFS_SECRET_TOKEN = << >>}

Max(a, b) == IF a >= b THEN a ELSE b

\* process p moves to the step pc, having returned r if it has returned
Moves(p, pc, r) == procs' = [procs EXCEPT ![p].pc = pc, ![p].ret = r]

\* p enters InitMinFSConfig in the environment e: os.MkdirAll
PStart(p, e) ==
    /\ procs[p].pc = "start"
    /\ dir' = TRUE
    /\ procs' = [procs EXCEPT ![p].pc = "stat", ![p].env = e]
    /\ UNCHANGED <<cfg, verr, last, applied, file, env, pre, ret>>

\* p's os.Stat(globalConfigFile): the file is there or it is not
PStat(p) ==
    /\ procs[p].pc = "stat"
    /\ Moves(p, IF file.exists THEN "read" ELSE "write", procs[p].ret)
    /\ UNCHANGED <<cfg, verr, last, applied, dir, file, env, pre, ret>>

\* p's ioutil.WriteFile opens the file with O_CREATE|O_TRUNC
POpen(p) ==
    /\ procs[p].pc = "write"
    /\ file' = EmptyFile
    /\ Moves(p, "opened", procs[p].ret)
    /\ UNCHANGED <<cfg, verr, last, applied, dir, env, pre, ret>>

\* p's ioutil.WriteFile writes its bytes at offset 0 and p returns its record;
\* bytes of a longer write made since p opened the file stay behind p's
PWrite(p) ==
    LET ac == FirstRunRecord(procs[p].env)
        bytes == Marshal(ac)
        left == Max(FileLen(BytesOf(file)), FileLen(bytes)) - FileLen(bytes)
    IN  /\ procs[p].pc = "opened"
        /\ file' = FileOf([bytes EXCEPT !.tail = left])
        /\ Moves(p, "done", Returned(ac, NoError, TRUE))
        /\ UNCHANGED <<cfg, verr, last, applied, dir, env, pre, ret>>

\* p's ioutil.ReadFile and json.Unmarshal of what is on disk, and p returns
PRead(p) ==
    LET r == Unmarshal(BytesOf(file))
    IN  /\ procs[p].pc = "read"
        /\ Moves(p, "done",
                 IF r.ok THEN Returned(Merge(r.ac, procs[p].env), NoError, FALSE)
                 ELSE Returned(ZeroAccessConfig, "Unmarshal failed", FALSE))
        /\ UNCHANGED <<cfg, verr, last, applied, dir, file, env, pre, ret>>

\* no credential file yet, and no process has entered InitMinFSConfig
InitRace ==
    /\ CfgInit
    /\ dir = FALSE
    /\ file = NoFile
    /\ env = ZeroEnv
    /\ pre = NoFile
    /\ ret = NotCalled
    /\ procs = [p \in Procs |-> [pc |-> "start", env |-> ZeroEnv, ret |-> NotCalled]]

NextRace ==
    \E p \in Procs :
        \/ \E e \in RaceEnvs : PStart(p, e)
        \/ PStat(p)
        \/ POpen(p)
        \/ PWrite(p)
        \/ PRead(p)

SpecRace == InitRace /\ [][NextRace]_vars

-----------------------------------------------------------------------------
(* Claims about InitMinFSConfig                                            *)

\* a run of InitMinFSConfig found no credential file and returned no error
FirstRunDone == ret.called /\ ret.err = NoError /\ ~pre.exists

\* a run of InitMinFSConfig found a credential file and returned no error
LaterRunDone == ret.called /\ ret.err = NoError /\ pre.exists

\* the record {version "1", accessKey, secretKey, secretToken} of the
\* environment variables
EnvRecord ==
    [Version |-> <<"1">>, AccessKey |-> env.MINFS_ACCESS_KEY,
     SecretKey |-> env.MINFS_SECRET_KEY, SecretToken |-> env.MINFS_SECRET_TOKEN]

\* the record the credential file holds
OnDisk(f) == Unmarshal(BytesOf(f)).ac

\* C3 as stated: a first run whose I/O succeeds writes a credential file that
\* holds exactly the record taken from the environment variables, and returns
\* a record equal to the one written.
C3_AsStated ==
    FirstRunDone =>
        /\ file.exists /\ Unmarshal(BytesOf(file)).ok
        /\ OnDisk(file) = EnvRecord
        /\ ret.ac = OnDisk(file)

\* s with every byte that is not valid UTF-8 replaced by U+FFFD
ToValidUTF8(s) == [i \in 1..Len(s) |-> IF s[i] = "xFF" THEN "uFFFD" ELSE s[i]]

ValidUTF8(s) == \A i \in 1..Len(s) : s[i] # "xFF"

\* C3, amended: a first run whose I/O succeeds returns exactly the record
\* taken from the environment variables, and writes a credential file that
\* holds this record with every byte that is not valid UTF-8 replaced by
\* U+FFFD; the record written equals the record returned when the three
\* variables are valid UTF-8.
C3_FirstRunWritesEnv ==
    FirstRunDone =>
        /\ ret.ac = EnvRecord
        /\ file.exists /\ Unmarshal(BytesOf(file)).ok
        /\ OnDisk(file) =
              [Version |-> <<"1">>,
               AccessKey |-> ToValidUTF8(env.MINFS_ACCESS_KEY),
               SecretKey |-> ToValidUTF8(env.MINFS_SECRET_KEY),
               SecretToken |-> ToValidUTF8(env.MINFS_SECRET_TOKEN)]
        /\ (/\ ValidUTF8(env.MINFS_ACCESS_KEY)
            /\ ValidUTF8(env.MINFS_SECRET_KEY)
            /\ ValidUTF8(env.MINFS_SECRET_TOKEN)) => OnDisk(file) = ret.ac

\* C3's case: the first run with MINFS_ACCESS_KEY=A, MINFS_SECRET_KEY="B and
\* no MINFS_SECRET_TOKEN has written the file
C3_Witness ==
    /\ FirstRunDone /\ ret.wrote
    /\ env.MINFS_ACCESS_KEY = <<"A">>
    /\ env.MINFS_SECRET_KEY = <<"\"", "B">>
    /\ env.MINFS_SECRET_TOKEN = << >>
    /\ OnDisk(file).SecretKey = <<"\"", "B">>

\* C4: a run that finds a readable, parsable credential file returns, for each
\* of accessKey, secretKey and secretToken, the environment variable's value if
\* it is non-empty and the file's value otherwise, and leaves the file as it
\* found it; in every run of any sequence of runs.
C4_EnvOverridesFile ==
    LaterRunDone =>
        /\ ret.ac.AccessKey =
              (IF env.MINFS_ACCESS_KEY # << >> THEN env.MINFS_ACCESS_KEY
               ELSE OnDisk(pre).AccessKey)
        /\ ret.ac.SecretKey =
              (IF env.MINFS_SECRET_KEY # << >> THEN env.MINFS_SECRET_KEY
               ELSE OnDisk(pre).SecretKey)
        /\ ret.ac.SecretToken =
              (IF env.MINFS_SECRET_TOKEN # << >> THEN env.MINFS_SECRET_TOKEN
               ELSE OnDisk(pre).SecretToken)
        /\ file = pre

\* C4's case: the file holds accessKey A and secretKey B, only MINFS_SECRET_KEY
\* is set, to C, and the run returns accessKey A and secretKey C
C4_Witness ==
    /\ LaterRunDone
    /\ OnDisk(pre).AccessKey = <<"A">> /\ OnDisk(pre).SecretKey = <<"B">>
    /\ env = [ZeroEnv EXCEPT !.MINFS_SECRET_KEY = <<"C">>]
    /\ ret.ac.AccessKey = <<"A">> /\ ret.ac.SecretKey = <<"C">>

\* C10: once the credential file has been written, its contents never change
\* again, for any number of processes running InitMinFSConfig against it and
\* any interleaving of their stat and write steps.
C10_WrittenFileNeverChanges ==
    [][(file.exists /\ file.json /\ file.tail = 0) => file' = file]_vars

=============================================================================
